---- MODULE Spec2Model ----
(***************************************************************************)
(* Satel Integra integration: the binary_sensor platform (zone and output  *)
(* entities fed by controller snapshots, motion zones polled for           *)
(* temperature with auto-disable) and the sensor platform (temperature     *)
(* capability discovery followed by recurring polls).                      *)
(*                                                                         *)
(* Python values are kept apart from None with a one-element tuple:        *)
(* None is <<>>, the value v is <<v>>.                                     *)
(***************************************************************************)
EXTENDS Integers, FiniteSets, Sequences, TLC

\* ------------------------------------------------------------------ bounds
\* Temperatures the controller may report: 0 .. MaxTemp (0 is a reading).
MaxTemp == 1
\* Values a snapshot may carry for a device number: 0 .. MaxVal.
MaxVal == 1
\* The config entry holds at most MaxSubentries zone and output sub-entries.
MaxSubentries == 2

None == <<>>
Some(v) == <<v>>

Temps == 0 .. MaxTemp
\* The device numbers a sub-entry can carry.
ZoneNumbers == {1, 2}
OutputNumbers == {1}

SIGNAL_ZONES_UPDATED == "zones"
SIGNAL_OUTPUTS_UPDATED == "outputs"
Signals == {SIGNAL_ZONES_UPDATED, SIGNAL_OUTPUTS_UPDATED}

MOTION == "motion"
DeviceClasses == {MOTION, "door"}

\* What one await of controller.get_zone_temperature can produce.
QueryResults ==
    {<<"value", t>> : t \in Temps} \cup {<<"none">>, <<"timeout">>, <<"error">>}

\* The binary sensor entities async_setup_entry can build: one per zone
\* sub-entry and one per output sub-entry.
Entities ==
    [signal : {SIGNAL_ZONES_UPDATED}, num : ZoneNumbers]
        \cup [signal : {SIGNAL_OUTPUTS_UPDATED}, num : OutputNumbers]

\* The sub-entry sets a config entry can hold.
Configs == {c \in SUBSET Entities : Cardinality(c) \in 1 .. MaxSubentries}

\* The snapshots the controller can push: a mapping from some of the
\* device numbers in nums to a value.
Snapshots(nums) == UNION {[D -> 0 .. MaxVal] : D \in SUBSET nums}

VARIABLES
    \* binary_sensor platform
    entity_state,   \* "absent" | "created" | "added" | "removed"
    device_class,   \* _attr_device_class, from the sub-entry
    is_on,          \* _attr_is_on: None until added
    should_poll,    \* _attr_should_poll
    temperature,    \* _temperature
    pc,             \* where the entity's async_update is: idle|sleeping|awaiting
    delay,          \* what is left, in seconds, of async_update's sleep
    violated,       \* controller.violated_zones / violated_outputs
    notified,       \* entities whose async_write_ha_state ran in the last step
    \* sensor platform
    phase,          \* "unloaded" | "probing" | "done"
    probe_pc,       \* test_zone_temperature per zone: absent|delay|query|done
    results,        \* what gather has collected: zone -> Some(zone) | None
    sensor_state,   \* "absent" | "added" | "removed"
    native_value,   \* _attr_native_value
    available,      \* _attr_available
    sensor_should_poll, \* _attr_should_poll of the temperature sensor
    sensor_pc,      \* the sensor's async_update: idle|awaiting
    now,            \* ms since async_setup_entry called gather; stops with it
    started,        \* per zone: the value of now when its probe sent the query
    \* observations of the environment, read by the properties only
    event,          \* the query result the last step delivered, if any, and
                    \* whether async_update returned or raised on it
    lastSeen,       \* per entity: seed, then latest snapshot value for its number
    lastReading,    \* per entity: the latest numeric reading a poll returned
    outcome,        \* per zone: what the discovery probe's query produced
    lastNumeric     \* per zone: the latest numeric reading a sensor poll returned

binaryVars ==
    <<entity_state, device_class, is_on, should_poll, temperature, pc, violated,
      notified, lastSeen, lastReading, delay>>
sensorVars ==
    <<phase, probe_pc, results, outcome, sensor_state, native_value, available,
      sensor_should_poll, sensor_pc, lastNumeric, now, started>>
vars == <<binaryVars, sensorVars, event>>

NoEvent == <<"none">>

\* ------------------------------------------------- binary_sensor platform

\* Times of the binary_sensor platform are in seconds. The interval at which
\* the platform's entities are polled.
TEMPERATURE_SCAN_INTERVAL == 300
\* The upper end of async_update's random delay.
JITTER_MAX == 240

\* Mutant of RandomUniform: the delay is spread over the whole interval.
RandomUniformInterval == {0, TEMPERATURE_SCAN_INTERVAL}

\* random.uniform(0, 240): the two ends stand for the range.
RandomUniform == {0, JITTER_MAX}

\* Mutant of InitShouldPoll: every motion entity is polled, zone or output.
InitShouldPollAnyMotion(signal, cls) == cls = MOTION

\* SatelIntegraBinarySensor.__init__: polling only for motion zones.
InitShouldPoll(signal, cls) ==
    signal = SIGNAL_ZONES_UPDATED /\ cls = MOTION

\* Mutant of SeedIsOn: every entity is seeded from violated_zones.
SeedIsOnZonesOnly(e, viol) == e.num \in viol[SIGNAL_ZONES_UPDATED]

\* async_added_to_hass: the initial state comes from the violated set of the
\* entity's own kind.
SeedIsOn(e, viol) ==
    IF e.signal = SIGNAL_OUTPUTS_UPDATED
    THEN e.num \in viol[SIGNAL_OUTPUTS_UPDATED]
    ELSE e.num \in viol[SIGNAL_ZONES_UPDATED]

\* Mutant of DevicesUpdated: a number the snapshot lacks counts as inactive.
DevicesUpdatedAbsentInactive(num, cur, zones) ==
    LET new_state == (num \in DOMAIN zones /\ zones[num] = 1)
    IN  IF Some(new_state) # cur
        THEN [is_on |-> Some(new_state), write |-> TRUE]
        ELSE [is_on |-> cur, write |-> FALSE]

\* Mutant of DevicesUpdated: the new state is stored but never written.
DevicesUpdatedNeverWrite(num, cur, zones) ==
    IF num \in DOMAIN zones
    THEN [is_on |-> Some(zones[num] = 1), write |-> FALSE]
    ELSE [is_on |-> cur, write |-> FALSE]

\* Mutant of DevicesUpdated: the state is written without comparing it
\* with the current one.
DevicesUpdatedAlwaysWrite(num, cur, zones) ==
    IF num \in DOMAIN zones
    THEN [is_on |-> Some(zones[num] = 1), write |-> TRUE]
    ELSE [is_on |-> cur, write |-> FALSE]

\* _devices_updated for one entity: the new _attr_is_on and whether
\* async_write_ha_state is called.
DevicesUpdated(num, cur, zones) ==
    IF num \in DOMAIN zones
    THEN LET new_state == (zones[num] = 1)
         IN  IF Some(new_state) # cur
             THEN [is_on |-> Some(new_state), write |-> TRUE]
             ELSE [is_on |-> cur, write |-> FALSE]
    ELSE [is_on |-> cur, write |-> FALSE]

\* Mutant of BinaryUpdate: a timeout is only logged, like any other error.
BinaryUpdateTimeoutIgnored(temp, sp, r) ==
    IF r[1] = "value"
    THEN [temperature |-> Some(r[2]), should_poll |-> sp]
    ELSE IF r[1] = "none"
    THEN [temperature |-> temp,
          should_poll |-> IF temp = None THEN FALSE ELSE sp]
    ELSE [temperature |-> temp, should_poll |-> sp]

\* Mutant of BinaryUpdate: a timeout disables polling whether or not a
\* temperature was ever read.
BinaryUpdateTimeoutDisables(temp, sp, r) ==
    IF r[1] = "value"
    THEN [temperature |-> Some(r[2]), should_poll |-> sp]
    ELSE IF r[1] = "none"
    THEN [temperature |-> temp,
          should_poll |-> IF temp = None THEN FALSE ELSE sp]
    ELSE IF r[1] = "timeout"
    THEN [temperature |-> temp, should_poll |-> FALSE]
    ELSE [temperature |-> temp, should_poll |-> sp]

\* Mutant of BinaryUpdate: any other exception is handled like a timeout.
BinaryUpdateErrorAsTimeout(temp, sp, r) ==
    IF r[1] = "value"
    THEN [temperature |-> Some(r[2]), should_poll |-> sp]
    ELSE [temperature |-> temp,
          should_poll |-> IF temp = None THEN FALSE ELSE sp]

\* Mutant of BinaryUpdate: a poll without a reading clears the temperature.
BinaryUpdateClearOnNone(temp, sp, r) ==
    IF r[1] = "value"
    THEN [temperature |-> Some(r[2]), should_poll |-> sp]
    ELSE IF r[1] = "none"
    THEN [temperature |-> None,
          should_poll |-> IF temp = None THEN FALSE ELSE sp]
    ELSE IF r[1] = "timeout"
    THEN [temperature |-> temp,
          should_poll |-> IF temp = None THEN FALSE ELSE sp]
    ELSE [temperature |-> temp, should_poll |-> sp]

\* Mutant of BinaryUpdate: a None reading turns polling off whether or not a
\* temperature is stored.
BinaryUpdateNoneDisables(temp, sp, r) ==
    IF r[1] = "value"
    THEN [temperature |-> Some(r[2]), should_poll |-> sp]
    ELSE IF r[1] = "none"
    THEN [temperature |-> temp, should_poll |-> FALSE]
    ELSE IF r[1] = "timeout"
    THEN [temperature |-> temp,
          should_poll |-> IF temp = None THEN FALSE ELSE sp]
    ELSE [temperature |-> temp, should_poll |-> sp]

\* The body of SatelIntegraBinarySensor.async_update once the query has
\* ended with r: the new _temperature and _attr_should_poll.
BinaryUpdate(temp, sp, r) ==
    IF r[1] = "value"
    THEN [temperature |-> Some(r[2]), should_poll |-> sp]
    ELSE IF r[1] = "none"
    THEN [temperature |-> temp,
          should_poll |-> IF temp = None THEN FALSE ELSE sp]
    ELSE IF r[1] = "timeout"
    THEN [temperature |-> temp,
          should_poll |-> IF temp = None THEN FALSE ELSE sp]
    ELSE [temperature |-> temp, should_poll |-> sp]

\* Mutant of BinaryUpdateRaises: async_update has no except Exception clause.
BinaryUpdateRaisesUncaught(r) ==
    IF r[1] \in {"value", "none"} THEN FALSE
    ELSE IF r[1] = "timeout" THEN FALSE
    ELSE TRUE

\* Whether SatelIntegraBinarySensor.async_update lets the end r of its query
\* out as an exception: a value and None are none, except TimeoutError and
\* except Exception catch the others.
BinaryUpdateRaises(r) ==
    IF r[1] \in {"value", "none"} THEN FALSE
    ELSE IF r[1] = "timeout" THEN FALSE
    ELSE FALSE

\* extra_state_attributes: the temperature attribute, when there is one.
ExtraStateAttributes(temp) ==
    IF temp # None THEN Some(temp[1]) ELSE None

\* The device numbers of one kind the integration has entities for.
Monitored(signal) ==
    {e.num : e \in {x \in Entities :
                      x.signal = signal /\ entity_state[x] # "absent"}}

\* Mutant of DispatcherSend: every entity listens to both signals.
DispatcherSendAnySignal(signal, zones, states, ison) ==
    LET conn(e) == states[e] = "added"
        upd(e) == DevicesUpdated(e.num, ison[e], zones)
    IN  [is_on |-> [e \in Entities |->
                      IF conn(e) THEN upd(e).is_on ELSE ison[e]],
         notified |-> {e \in Entities : conn(e) /\ upd(e).write}]

\* The dispatcher delivers a snapshot sent on signal: _devices_updated runs
\* for every entity connected to it. Gives every entity's _attr_is_on
\* afterwards and the entities that wrote their state.
DispatcherSend(signal, zones, states, ison) ==
    LET conn(e) == states[e] = "added" /\ e.signal = signal
        upd(e) == DevicesUpdated(e.num, ison[e], zones)
    IN  [is_on |-> [e \in Entities |->
                      IF conn(e) THEN upd(e).is_on ELSE ison[e]],
         notified |-> {e \in Entities : conn(e) /\ upd(e).write}]

\* The platform adds a constructed entity: seed, then connect the dispatcher.
AddedToHass(e) ==
    /\ entity_state[e] = "created"
    /\ entity_state' = [entity_state EXCEPT ![e] = "added"]
    /\ is_on' = [is_on EXCEPT ![e] = Some(SeedIsOn(e, violated))]
    /\ lastSeen' = [lastSeen EXCEPT ![e] = Some(e.num \in violated[e.signal])]
    /\ notified' = {}
    /\ event' = NoEvent
    /\ UNCHANGED <<device_class, should_poll, temperature, pc, violated,
                   lastReading, delay, sensorVars>>

\* Mutant of Push: an entity whose async_update is under way misses the
\* snapshot.
PushMissedWhilePolling(signal, zones) ==
    /\ violated' = [violated EXCEPT ![signal] =
            (@ \ DOMAIN zones) \cup {n \in DOMAIN zones : zones[n] = 1}]
    /\ LET idle == [e \in Entities |->
                      IF pc[e] = "idle" THEN entity_state[e] ELSE "removed"]
           sent == DispatcherSend(signal, zones, idle, is_on)
       IN  /\ is_on' = sent.is_on
           /\ notified' = sent.notified
    /\ lastSeen' = [e \in Entities |->
                      IF /\ entity_state[e] = "added"
                         /\ e.signal = signal
                         /\ e.num \in DOMAIN zones
                      THEN Some(zones[e.num] = 1) ELSE lastSeen[e]]
    /\ event' = NoEvent
    /\ UNCHANGED <<entity_state, device_class, should_poll, temperature, pc,
                   lastReading, delay, sensorVars>>

\* The controller reports new states: it updates its violated set and the
\* dispatcher runs _devices_updated of every entity connected to the signal.
Push(signal, zones) ==
    /\ violated' = [violated EXCEPT ![signal] =
            (@ \ DOMAIN zones) \cup {n \in DOMAIN zones : zones[n] = 1}]
    /\ LET sent == DispatcherSend(signal, zones, entity_state, is_on)
       IN  /\ is_on' = sent.is_on
           /\ notified' = sent.notified
    /\ lastSeen' = [e \in Entities |->
                      IF /\ entity_state[e] = "added"
                         /\ e.signal = signal
                         /\ e.num \in DOMAIN zones
                      THEN Some(zones[e.num] = 1) ELSE lastSeen[e]]
    /\ event' = NoEvent
    /\ UNCHANGED <<entity_state, device_class, should_poll, temperature, pc,
                   lastReading, delay, sensorVars>>

\* The host calls async_update: it returns at once when polling is off,
\* else the random delay starts.
PollStart(e) ==
    /\ entity_state[e] = "added"
    /\ pc[e] = "idle"
    /\ IF should_poll[e]
       THEN /\ pc' = [pc EXCEPT ![e] = "sleeping"]
            /\ \E d \in RandomUniform : delay' = [delay EXCEPT ![e] = d]
            /\ event' = NoEvent
       ELSE pc' = pc /\ delay' = delay /\ event' = NoEvent
    /\ notified' = {}
    /\ UNCHANGED <<entity_state, device_class, is_on, should_poll, temperature,
                   violated, lastSeen, lastReading, sensorVars>>

\* Time passes for an entity that is sleeping, up to the end of its delay.
Sleep(e) ==
    /\ pc[e] = "sleeping"
    /\ delay[e] > 0
    /\ delay' = [delay EXCEPT ![e] = 0]
    /\ notified' = {}
    /\ event' = NoEvent
    /\ UNCHANGED <<entity_state, device_class, is_on, should_poll, temperature,
                   pc, violated, lastSeen, lastReading, sensorVars>>

\* asyncio.sleep(delay) is over: get_zone_temperature is called.
PollQuery(e) ==
    /\ pc[e] = "sleeping"
    /\ delay[e] = 0
    /\ pc' = [pc EXCEPT ![e] = "awaiting"]
    /\ delay' = delay
    /\ notified' = {}
    /\ event' = NoEvent
    /\ UNCHANGED <<entity_state, device_class, is_on, should_poll, temperature,
                   violated, lastSeen, lastReading, sensorVars>>

\* The query ends with r and the rest of async_update runs.
PollReturn(e, r) ==
    /\ pc[e] = "awaiting"
    /\ LET u == BinaryUpdate(temperature[e], should_poll[e], r)
       IN  /\ temperature' = [temperature EXCEPT ![e] = u.temperature]
           /\ should_poll' = [should_poll EXCEPT ![e] = u.should_poll]
    /\ pc' = [pc EXCEPT ![e] = "idle"]
    /\ lastReading' = [lastReading EXCEPT ![e] =
                          IF r[1] = "value" THEN Some(r[2]) ELSE @]
    /\ event' = IF BinaryUpdateRaises(r)
                THEN <<"raise", e, r>> ELSE <<"return", e, r>>
    /\ notified' = {}
    /\ UNCHANGED <<entity_state, device_class, is_on, violated,
                   lastSeen, delay, sensorVars>>

\* The entity is removed: the on-remove callback disconnects the dispatcher.
\* Nothing in the entity stops an async_update that is under way.
Remove(e) ==
    /\ entity_state[e] = "added"
    /\ entity_state' = [entity_state EXCEPT ![e] = "removed"]
    /\ notified' = {}
    /\ event' = NoEvent
    /\ UNCHANGED <<device_class, is_on, should_poll, temperature, pc, violated,
                   lastSeen, lastReading, delay, sensorVars>>

\* The host cancels the task running async_update: CancelledError is raised
\* at the await and passes both except clauses.
PollCancel(e) ==
    /\ pc[e] \in {"sleeping", "awaiting"}
    /\ pc' = [pc EXCEPT ![e] = "idle"]
    /\ delay' = [delay EXCEPT ![e] = 0]
    /\ notified' = {}
    /\ event' = NoEvent
    /\ UNCHANGED <<entity_state, device_class, is_on, should_poll, temperature,
                   violated, lastSeen, lastReading, sensorVars>>

BinaryUnloaded ==
    /\ entity_state = [e \in Entities |-> "absent"]
    /\ device_class = [e \in Entities |-> "none"]
    /\ is_on = [e \in Entities |-> None]
    /\ should_poll = [e \in Entities |-> FALSE]
    /\ temperature = [e \in Entities |-> None]
    /\ pc = [e \in Entities |-> "idle"]
    /\ violated = [s \in Signals |-> {}]
    /\ notified = {}
    /\ lastSeen = [e \in Entities |-> None]
    /\ lastReading = [e \in Entities |-> None]
    /\ delay = [e \in Entities |-> 0]

SensorUnloaded ==
    /\ phase = "unloaded"
    /\ probe_pc = [z \in ZoneNumbers |-> "absent"]
    /\ results = <<>>
    /\ outcome = [z \in ZoneNumbers |-> "pending"]
    /\ sensor_state = [z \in ZoneNumbers |-> "absent"]
    /\ native_value = [z \in ZoneNumbers |-> None]
    /\ available = [z \in ZoneNumbers |-> TRUE]
    /\ sensor_should_poll = [z \in ZoneNumbers |-> TRUE]
    /\ sensor_pc = [z \in ZoneNumbers |-> "idle"]
    /\ lastNumeric = [z \in ZoneNumbers |-> None]
    /\ now = 0
    /\ started = [z \in ZoneNumbers |-> 0]

\* binary_sensor.async_setup_entry has constructed one entity per sub-entry
\* of the config entry.
InitBinary ==
    /\ \E cfg \in Configs : \E cls \in [cfg -> DeviceClasses] :
        /\ entity_state =
              [e \in Entities |-> IF e \in cfg THEN "created" ELSE "absent"]
        /\ device_class =
              [e \in Entities |-> IF e \in cfg THEN cls[e] ELSE "none"]
        /\ should_poll =
              [e \in Entities |->
                 e \in cfg /\ InitShouldPoll(e.signal, cls[e])]
        /\ \E v \in [Signals -> SUBSET (ZoneNumbers \cup OutputNumbers)] :
              /\ \A s \in Signals :
                    v[s] \subseteq {e.num : e \in {x \in cfg : x.signal = s}}
              /\ violated = v
    /\ is_on = [e \in Entities |-> None]
    /\ temperature = [e \in Entities |-> None]
    /\ pc = [e \in Entities |-> "idle"]
    /\ notified = {}
    /\ lastSeen = [e \in Entities |-> None]
    /\ lastReading = [e \in Entities |-> None]
    /\ delay = [e \in Entities |-> 0]
    /\ event = NoEvent
    /\ SensorUnloaded

\* --------------------------------------------------------- sensor platform

\* test_zone_temperature once its query has ended with r: the sub-entry
\* (named by its zone number) when a temperature came back, else None.
\* Every exception is caught inside it.
TestZoneTemperature(z, r) ==
    IF r[1] = "value" THEN Some(z)
    ELSE IF r[1] = "none" THEN None
    ELSE IF r[1] = "timeout" THEN None
    ELSE None

\* Mutant of GatherReady: the wait ends with the first probe that returns.
GatherFirstCompleted(pcs) == \E z \in ZoneNumbers : pcs[z] = "done"

\* asyncio.gather returns once every probe has returned.
GatherReady(pcs) == \A z \in ZoneNumbers : pcs[z] \in {"absent", "done"}

\* Mutant of CreatedSensors: a sensor for every result, sub-entry or not.
CreatedSensorsUnfiltered(res) == DOMAIN res

\* The sensors async_setup_entry creates from gather's results.
CreatedSensors(res) == {z \in DOMAIN res : res[z] # None}

\* Mutant of SensorUpdate: a timeout turns polling off, as the binary
\* sensor does.
SensorUpdateTimeoutDisables(nv, av, sp, r) ==
    IF r[1] = "value"
    THEN [native_value |-> Some(r[2]), available |-> TRUE, should_poll |-> sp]
    ELSE IF r[1] = "none"
    THEN [native_value |-> None, available |-> TRUE, should_poll |-> sp]
    ELSE IF r[1] = "timeout"
    THEN [native_value |-> nv, available |-> FALSE, should_poll |-> FALSE]
    ELSE [native_value |-> nv, available |-> FALSE, should_poll |-> sp]

\* The body of SatelIntegraTemperatureSensor.async_update once the query
\* has ended with r.
SensorUpdate(nv, av, sp, r) ==
    IF r[1] = "value"
    THEN [native_value |-> Some(r[2]), available |-> TRUE, should_poll |-> sp]
    ELSE IF r[1] = "none"
    THEN [native_value |-> None, available |-> TRUE, should_poll |-> sp]
    ELSE IF r[1] = "timeout"
    THEN [native_value |-> nv, available |-> FALSE, should_poll |-> sp]
    ELSE [native_value |-> nv, available |-> FALSE, should_poll |-> sp]

\* Times are in milliseconds. The step between two probes' delays.
STAGGER == 50
\* The timeout wait_for puts on a probe's query.
TIMEOUT == 6000

\* The zones that have a sub-entry, hence a probe.
ConfiguredZones == {z \in ZoneNumbers : probe_pc[z] # "absent"}

\* enumerate(zone_subentries): the index of zone z's probe. Sub-entries are
\* taken in the order of their zone numbers.
Position(z) == Cardinality({y \in ConfiguredZones : y < z})

\* Mutant of ProbeDelay: no probe waits.
ProbeDelayNone(i) == 0

\* Mutant of ProbeDelay: a probe waits for a full query timeout per probe
\* ahead of it.
ProbeDelayTimeout(i) == i * TIMEOUT

\* The delay gather's i-th probe is given.
ProbeDelay(i) == i * STAGGER

\* The timers the event loop holds for the probes: the end of a sleep for a
\* probe that is waiting, the end of wait_for's timeout for one that is
\* querying.
Deadlines ==
    {ProbeDelay(Position(z)) : z \in {y \in ZoneNumbers : probe_pc[y] = "delay"}}
        \cup {started[z] + TIMEOUT :
                 z \in {y \in ZoneNumbers : probe_pc[y] = "query"}}

\* Time passes up to the next timer. The event loop runs no CPU-bound work,
\* so a timer that is due fires before time moves on.
Tick ==
    /\ phase = "probing"
    /\ Deadlines # {}
    /\ \A d \in Deadlines : d > now
    /\ now' = CHOOSE d \in Deadlines : \A d2 \in Deadlines : d <= d2
    /\ event' = NoEvent
    /\ UNCHANGED <<binaryVars, phase, probe_pc, results, outcome, sensor_state,
                   native_value, available, sensor_should_poll, sensor_pc,
                   lastNumeric, started>>

\* Whether SatelIntegraTemperatureSensor.async_update lets the end r of its
\* query out as an exception.
SensorUpdateRaises(r) ==
    IF r[1] \in {"value", "none"} THEN FALSE
    ELSE IF r[1] = "timeout" THEN FALSE
    ELSE FALSE

\* The stagger delay of the probe for zone z is over (the first probe has
\* none): the probe calls get_zone_temperature under wait_for.
ProbeRelease(z) ==
    /\ probe_pc[z] = "delay"
    /\ now >= ProbeDelay(Position(z))
    /\ probe_pc' = [probe_pc EXCEPT ![z] = "query"]
    /\ started' = [started EXCEPT ![z] = now]
    /\ event' = NoEvent
    /\ UNCHANGED <<binaryVars, phase, results, outcome, sensor_state,
                   native_value, available, sensor_should_poll, sensor_pc,
                   lastNumeric, now>>

\* The probe's query ends with r (a timeout is wait_for's or the
\* controller's) and the probe returns its result to gather.
ProbeReturn(z, r) ==
    /\ probe_pc[z] = "query"
    /\ probe_pc' = [probe_pc EXCEPT ![z] = "done"]
    /\ results' = (z :> TestZoneTemperature(z, r)) @@ results
    /\ outcome' = [outcome EXCEPT ![z] = r[1]]
    /\ event' = <<"probe", z, r>>
    /\ UNCHANGED <<binaryVars, phase, sensor_state, native_value, available,
                   sensor_should_poll, sensor_pc, lastNumeric, now, started>>

\* gather has returned: a sensor is created and added for every result
\* that is a sub-entry.
DiscoveryFinish ==
    /\ phase = "probing"
    /\ GatherReady(probe_pc)
    /\ phase' = "done"
    /\ sensor_state' = [z \in ZoneNumbers |->
                          IF z \in CreatedSensors(results)
                          THEN "added" ELSE "absent"]
    /\ event' = NoEvent
    /\ UNCHANGED <<binaryVars, probe_pc, results, outcome, native_value,
                   available, sensor_should_poll, sensor_pc, lastNumeric, now,
                   started>>

\* The host calls the sensor's async_update: the query is sent at once.
SensorPollStart(z) ==
    /\ sensor_state[z] = "added"
    /\ sensor_pc[z] = "idle"
    /\ sensor_should_poll[z]
    /\ sensor_pc' = [sensor_pc EXCEPT ![z] = "awaiting"]
    /\ event' = NoEvent
    /\ UNCHANGED <<binaryVars, phase, probe_pc, results, outcome, sensor_state,
                   native_value, available, sensor_should_poll, lastNumeric, now,
                   started>>

\* The query ends with r and the rest of the sensor's async_update runs.
SensorPollReturn(z, r) ==
    /\ sensor_pc[z] = "awaiting"
    /\ LET u == SensorUpdate(native_value[z], available[z],
                             sensor_should_poll[z], r)
       IN  /\ native_value' = [native_value EXCEPT ![z] = u.native_value]
           /\ available' = [available EXCEPT ![z] = u.available]
           /\ sensor_should_poll' =
                 [sensor_should_poll EXCEPT ![z] = u.should_poll]
    /\ sensor_pc' = [sensor_pc EXCEPT ![z] = "idle"]
    /\ lastNumeric' = [lastNumeric EXCEPT ![z] =
                          IF r[1] = "value" THEN Some(r[2]) ELSE @]
    /\ event' = IF SensorUpdateRaises(r)
                THEN <<"raise", z, r>> ELSE <<"sensor_return", z, r>>
    /\ UNCHANGED <<binaryVars, phase, probe_pc, results, outcome, sensor_state,
                   now, started>>

\* The sensor entity is removed. Nothing in the entity stops an
\* async_update that is under way.
SensorRemove(z) ==
    /\ sensor_state[z] = "added"
    /\ sensor_state' = [sensor_state EXCEPT ![z] = "removed"]
    /\ event' = NoEvent
    /\ UNCHANGED <<binaryVars, phase, probe_pc, results, outcome, native_value,
                   available, sensor_should_poll, sensor_pc, lastNumeric, now,
                   started>>

\* The host cancels the task running the sensor's async_update:
\* CancelledError passes both except clauses.
SensorPollCancel(z) ==
    /\ sensor_pc[z] = "awaiting"
    /\ sensor_pc' = [sensor_pc EXCEPT ![z] = "idle"]
    /\ event' = NoEvent
    /\ UNCHANGED <<binaryVars, phase, probe_pc, results, outcome, sensor_state,
                   native_value, available, sensor_should_poll, lastNumeric, now,
                   started>>

\* sensor.async_setup_entry has started one probe per zone sub-entry.
InitSensor ==
    /\ \E zs \in SUBSET ZoneNumbers :
        /\ Cardinality(zs) \in 1 .. MaxSubentries
        /\ probe_pc = [z \in ZoneNumbers |->
                         IF z \in zs THEN "delay" ELSE "absent"]
    /\ phase = "probing"
    /\ results = <<>>
    /\ outcome = [z \in ZoneNumbers |-> "pending"]
    /\ sensor_state = [z \in ZoneNumbers |-> "absent"]
    /\ native_value = [z \in ZoneNumbers |-> None]
    /\ available = [z \in ZoneNumbers |-> TRUE]
    /\ sensor_should_poll = [z \in ZoneNumbers |-> TRUE]
    /\ sensor_pc = [z \in ZoneNumbers |-> "idle"]
    /\ lastNumeric = [z \in ZoneNumbers |-> None]
    /\ now = 0
    /\ started = [z \in ZoneNumbers |-> 0]
    /\ event = NoEvent
    /\ BinaryUnloaded

\* ----------------------------------------------------------- specification

Init == InitBinary \/ InitSensor

Next ==
    \/ \E e \in Entities : AddedToHass(e)
    \/ \E s \in Signals : \E zones \in Snapshots(Monitored(s)) :
          Monitored(s) # {} /\ Push(s, zones)
    \/ \E e \in Entities : PollStart(e)
    \/ \E e \in Entities : Sleep(e)
    \/ \E e \in Entities : PollQuery(e)
    \/ \E e \in Entities : \E r \in QueryResults : PollReturn(e, r)
    \/ \E e \in Entities : Remove(e)
    \/ \E e \in Entities : PollCancel(e)
    \/ Tick
    \/ \E z \in ZoneNumbers : ProbeRelease(z)
    \/ \E z \in ZoneNumbers : \E r \in QueryResults : ProbeReturn(z, r)
    \/ DiscoveryFinish
    \/ \E z \in ZoneNumbers : SensorPollStart(z)
    \/ \E z \in ZoneNumbers : \E r \in QueryResults : SensorPollReturn(z, r)
    \/ \E z \in ZoneNumbers : SensorRemove(z)
    \/ \E z \in ZoneNumbers : SensorPollCancel(z)

Spec == Init /\ [][Next]_vars

\* The sensor platform alone: the config entry is set up with this platform
\* only.
NextSensor ==
    \/ Tick
    \/ \E z \in ZoneNumbers : ProbeRelease(z)
    \/ \E z \in ZoneNumbers : \E r \in QueryResults : ProbeReturn(z, r)
    \/ DiscoveryFinish
    \/ \E z \in ZoneNumbers : SensorPollStart(z)
    \/ \E z \in ZoneNumbers : \E r \in QueryResults : SensorPollReturn(z, r)
    \/ \E z \in ZoneNumbers : SensorRemove(z)
    \/ \E z \in ZoneNumbers : SensorPollCancel(z)

SpecSensor == InitSensor /\ [][NextSensor]_vars

\* --------------------------------------------------------------- properties

\* How the binary sensor poll that the last step completed ended for e:
\* "value", "none", "timeout", "error", or "no" when the last step
\* completed no poll of e.
Returned(e) ==
    IF event[1] = "return" /\ event[2] = e THEN event[3][1] ELSE "no"

\* The same for the temperature sensor of zone z.
SensorReturned(z) ==
    IF event[1] = "sensor_return" /\ event[2] = z THEN event[3][1] ELSE "no"

\* C1: reactive policy. When a poll of a device that never obtained a numeric
\* reading returns no reading or times out, polling is switched off; and a
\* device whose polling is off never gets it switched on again and never has
\* a poll sleeping or a query in flight afterwards.
C1_DisabledForGood ==
    [][\A e \in Entities :
          /\ (Returned(e)' \in {"none", "timeout"} /\ lastReading[e] = None)
                => ~should_poll'[e]
          /\ ~should_poll[e] => (~should_poll'[e] /\ pc'[e] = "idle")]_vars

\* C1 witness: a motion zone that never read a temperature has just timed
\* out and is disabled.
C1_Witness ==
    \E e \in Entities :
        /\ Returned(e) = "timeout"
        /\ lastReading[e] = None
        /\ InitShouldPoll(e.signal, device_class[e])
        /\ ~should_poll[e]

\* C2: reactive policy. A device that has obtained a numeric reading keeps
\* polling switched on, whatever its later polls return.
C2_ReadNeverDisabled ==
    \A e \in Entities : lastReading[e] # None => should_poll[e]

\* C2 witness: a device with a reading has just timed out and still polls.
C2_Witness ==
    \E e \in Entities :
        /\ Returned(e) = "timeout"
        /\ lastReading[e] # None
        /\ should_poll[e]

\* C3: applying a snapshot is idempotent. In every reachable state and for
\* every snapshot, delivering the snapshot a second time right after the
\* first changes no entity's is_on and makes no entity write its state.
C3_SnapshotIdempotent ==
    \A s \in Signals : \A zones \in Snapshots(Monitored(s)) :
        LET first == DispatcherSend(s, zones, entity_state, is_on)
            second == DispatcherSend(s, zones, entity_state, first.is_on)
        IN  second.notified = {} /\ second.is_on = first.is_on

\* C3 witness: the first delivery of a snapshot has just switched a
\* connected entity on and made it write its state.
C3_Witness ==
    /\ notified # {}
    /\ \E e \in notified : entity_state[e] = "added" /\ is_on[e] = Some(TRUE)

\* C4: a connected entity's is_on is the value (== 1) the most recent
\* snapshot of its kind gave for its number since it was added, or its seed
\* from the controller's violated set of its kind when none has.
C4_IsOnIsLatest ==
    \A e \in Entities : entity_state[e] = "added" => is_on[e] = lastSeen[e]

\* C4 witness: a snapshot has just switched a connected entity off.
C4_Witness ==
    \E e \in notified :
        entity_state[e] = "added" /\ is_on[e] = Some(FALSE)

\* The zone sub-entries the sensor platform was set up with.

\* C5: upfront discovery. A temperature sensor exists only for zones whose
\* discovery probe returned a number, and once discovery is over for exactly
\* those; a zone whose probe returned None, timed out or raised has its
\* probe finished for good and never has a sensor query in flight.
C5_SensorsOnlyForCapable ==
    \A z \in ZoneNumbers :
        /\ sensor_state[z] # "absent" => outcome[z] = "value"
        /\ (phase = "done" /\ outcome[z] = "value") => sensor_state[z] # "absent"
        /\ outcome[z] \in {"none", "timeout", "error"} =>
              /\ probe_pc[z] = "done"
              /\ sensor_state[z] = "absent"
              /\ sensor_pc[z] = "idle"

\* C5 witness: discovery is over, the sensor of a capable zone is being
\* polled, and a zone whose probe timed out has no sensor.
C5_Witness ==
    /\ phase = "done"
    /\ \E z \in ZoneNumbers : outcome[z] = "value" /\ sensor_pc[z] = "awaiting"
    /\ \E z \in ZoneNumbers : outcome[z] = "timeout" /\ sensor_state[z] = "absent"

\* C6: discovery isolates failures per probe. A probe that has returned
\* holds exactly one result, decided by its own query alone, whatever the
\* other probes did and in whatever order; and discovery ends only with a
\* result for every configured zone.
C6_OneResultPerProbe ==
    /\ \A z \in ZoneNumbers : (z \in DOMAIN results) <=> (probe_pc[z] = "done")
    /\ \A z \in DOMAIN results :
          results[z] = IF outcome[z] = "value" THEN Some(z) ELSE None
    /\ phase = "done" => DOMAIN results = ConfiguredZones

\* C6 witness: discovery is over; one probe raised an error, and another
\* zone's probe, which returned after it, still gave its sub-entry.
C6_Witness ==
    /\ phase = "done"
    /\ \E z1, z2 \in ZoneNumbers :
          /\ outcome[z1] = "error" /\ results[z1] = None
          /\ outcome[z2] = "value" /\ results[z2] = Some(z2)

\* C7: upfront policy. A sensor poll that times out marks the sensor
\* unavailable and leaves polling switched on with the sensor ready for its
\* next poll; a poll that returns a number makes the sensor available with
\* that number; polling of a sensor is never switched off.
C7_TimeoutIsTransient ==
    [][\A z \in ZoneNumbers :
          /\ SensorReturned(z)' = "timeout" =>
                /\ ~available'[z]
                /\ sensor_should_poll'[z]
                /\ sensor_pc'[z] = "idle"
          /\ SensorReturned(z)' = "value" =>
                /\ available'[z]
                /\ native_value'[z] = Some(event'[3][2])
          /\ sensor_should_poll'[z]]_vars

\* C7 witness: a sensor that holds a reading has just timed out: it is
\* unavailable and still polled.
C7_Witness ==
    \E z \in ZoneNumbers :
        /\ SensorReturned(z) = "timeout"
        /\ lastNumeric[z] # None
        /\ ~available[z]
        /\ sensor_should_poll[z]
        /\ sensor_state[z] = "added"

\* C8 as stated: a transport error ends like a timeout would have. After an
\* error the binary sensor polls exactly when it has ever obtained a reading
\* (disabled otherwise), and the temperature sensor is unavailable.
C8_ErrorLikeTimeout ==
    /\ \A e \in Entities :
          Returned(e) = "error" => (should_poll[e] <=> lastReading[e] # None)
    /\ \A z \in ZoneNumbers : SensorReturned(z) = "error" => ~available[z]

\* C8 amended: under the reactive policy a transport error changes neither
\* the policy nor the temperature, so the device stays Polling even when it
\* never obtained a reading; under the upfront policy it marks the sensor
\* unavailable and keeps its value and its polling, as a timeout does.
C8_ErrorKeepsPolling ==
    [][/\ \A e \in Entities :
             Returned(e)' = "error" =>
                /\ should_poll'[e] /\ should_poll[e]
                /\ temperature'[e] = temperature[e]
       /\ \A z \in ZoneNumbers :
             SensorReturned(z)' = "error" =>
                /\ ~available'[z]
                /\ native_value'[z] = native_value[z]
                /\ sensor_should_poll'[z]]_vars

\* C8 witness: a poll of a device that never obtained a reading has just
\* raised a transport error and the device still polls.
C8_Witness ==
    \E e \in Entities :
        /\ Returned(e) = "error"
        /\ lastReading[e] = None
        /\ should_poll[e]

\* C9 as stated: once an entity is removed, its poll sends no query and
\* writes neither temperature nor polling state (binary sensor), neither
\* value nor availability (temperature sensor).
C9_NoEffectAfterRemoval ==
    [][/\ \A e \in Entities :
             entity_state[e] = "removed" =>
                /\ ~(pc[e] = "sleeping" /\ pc'[e] = "awaiting")
                /\ temperature'[e] = temperature[e]
                /\ should_poll'[e] = should_poll[e]
       /\ \A z \in ZoneNumbers :
             sensor_state[z] = "removed" =>
                /\ native_value'[z] = native_value[z]
                /\ available'[z] = available[z]]_vars

\* C10 as stated: a device that has obtained a reading and is neither
\* Disabled nor Unavailable exposes the latest numeric reading, on both
\* platforms.
C10_ExposesLastNumeric ==
    /\ \A e \in Entities :
          (lastReading[e] # None /\ should_poll[e]) =>
              ExtraStateAttributes(temperature[e]) = lastReading[e]
    /\ \A z \in ZoneNumbers :
          (lastNumeric[z] # None /\ available[z]) =>
              native_value[z] = lastNumeric[z]

\* C10 amended: the binary sensor exposes its latest numeric reading as the
\* temperature attribute, whatever later polls return. The temperature
\* sensor exposes what its latest answered poll returned: a number sets the
\* value, a poll without a reading clears it (the sensor stays available),
\* and a timeout or an error leaves it as it was.
C10_ExposedValue ==
    [][/\ \A e \in Entities :
             ExtraStateAttributes(temperature'[e]) = lastReading'[e]
       /\ \A z \in ZoneNumbers :
             /\ SensorReturned(z)' = "value" =>
                   native_value'[z] = lastNumeric'[z]
             /\ SensorReturned(z)' = "none" =>
                   native_value'[z] = None /\ available'[z]
             /\ SensorReturned(z)' \in {"timeout", "error", "no"} =>
                   native_value'[z] = native_value[z]]_vars

\* C10 witness: a sensor that has obtained a reading has just been polled
\* without a reading: it is available and its value is cleared.
C10_Witness ==
    \E z \in ZoneNumbers :
        /\ SensorReturned(z) = "none"
        /\ lastNumeric[z] # None
        /\ available[z]
        /\ native_value[z] = None

\* The probes that have sent their query.
Issued == {z \in ZoneNumbers : probe_pc[z] \in {"query", "done"}}

\* C11: the discovery stagger is honored. The probe at list position i
\* sends its query no earlier than i * STAGGER after discovery starts; the
\* probes send their queries in list order, no two less than STAGGER apart;
\* discovery over N zones does not complete before (N - 1) * STAGGER.
C11_StaggerHonored ==
    /\ \A z \in Issued : started[z] >= Position(z) * STAGGER
    /\ \A z1, z2 \in ConfiguredZones :
          (Position(z1) < Position(z2) /\ z2 \in Issued)
              => (z1 \in Issued /\ started[z2] - started[z1] >= STAGGER)
    /\ phase = "done" => now >= (Cardinality(ConfiguredZones) - 1) * STAGGER

C11_Witness ==
    /\ phase = "done"
    /\ ConfiguredZones = {1, 2}
    /\ started[1] = 0
    /\ started[2] = STAGGER

\* C17: discovery terminates and a slow zone does not starve the others.
\* A probe's query is pending for at most TIMEOUT; a probe still waiting has
\* not passed its own release time, whatever the earlier probes are doing;
\* discovery over N zones is never later than (N - 1) * STAGGER + TIMEOUT;
\* and while discovery runs, a step that needs no answer from the controller
\* is possible: time passes, a probe is released, wait_for's timeout is due
\* or gather returns.
C17_DiscoveryBounded ==
    /\ \A z \in ZoneNumbers :
          probe_pc[z] = "query" => now <= started[z] + TIMEOUT
    /\ \A z \in ZoneNumbers :
          probe_pc[z] = "delay" => now <= Position(z) * STAGGER
    /\ now <= (Cardinality(ConfiguredZones) - 1) * STAGGER + TIMEOUT
    /\ phase = "probing" =>
          \/ ENABLED Tick
          \/ \E z \in ZoneNumbers : ENABLED ProbeRelease(z)
          \/ \E z \in ZoneNumbers :
                probe_pc[z] = "query" /\ now = started[z] + TIMEOUT
          \/ ENABLED DiscoveryFinish

C17_Witness ==
    /\ phase = "done"
    /\ ConfiguredZones = {1, 2}
    /\ outcome[1] = "timeout"
    /\ outcome[2] = "timeout"
    /\ now = STAGGER + TIMEOUT

\* C16: a poll of an entity whose polling is on first sleeps for a delay
\* chosen in 0 .. JITTER_MAX seconds (80% of the scan interval) and sends its
\* one query only when nothing of the delay is left; a poll of an entity
\* whose polling is off neither sleeps nor sends a query.
C16_JitterBeforeQuery ==
    [][/\ JITTER_MAX * 100 = 80 * TEMPERATURE_SCAN_INTERVAL
       /\ \A e \in Entities :
            /\ (pc[e] = "idle" /\ pc'[e] # "idle")
                  => /\ should_poll[e]
                     /\ pc'[e] = "sleeping"
                     /\ delay'[e] \in 0 .. JITTER_MAX
            /\ (pc[e] = "sleeping" /\ pc'[e] = "sleeping")
                  => delay'[e] <= delay[e]
            /\ (pc[e] # "awaiting" /\ pc'[e] = "awaiting")
                  => (pc[e] = "sleeping" /\ delay[e] = 0)
            /\ (pc[e] = "awaiting" /\ pc'[e] # "awaiting") => pc'[e] = "idle"
            /\ (pc[e] = "idle" /\ ~should_poll[e])
                  => (pc'[e] = "idle" /\ delay'[e] = delay[e])]_vars

C16_Witness ==
    \E e1, e2 \in Entities :
        /\ pc[e1] = "sleeping"
        /\ delay[e1] = JITTER_MAX
        /\ entity_state[e2] = "added"
        /\ InitShouldPoll(e2.signal, device_class[e2])
        /\ ~should_poll[e2]
        /\ pc[e2] = "idle"

\* The entities __init__ leaves unpolled: outputs, and zones of another class
\* than motion.
Unpolled(e) ==
    e.signal = SIGNAL_OUTPUTS_UPDATED \/ device_class[e] # MOTION

\* C18: only motion zones are ever polled. An output entity or a zone of
\* another class has should_poll false from its creation on and never
\* sleeps, queries or stores a temperature; a motion zone is created with
\* should_poll true.
C18_OnlyMotionZonesPolled ==
    \A e \in Entities :
        /\ (entity_state[e] # "absent" /\ Unpolled(e))
              => /\ ~should_poll[e]
                 /\ pc[e] = "idle"
                 /\ temperature[e] = None
                 /\ lastReading[e] = None
        /\ (entity_state[e] = "created" /\ ~Unpolled(e)) => should_poll[e]

C18_Witness ==
    \E e1, e2 \in Entities :
        /\ e1.signal = SIGNAL_OUTPUTS_UPDATED
        /\ device_class[e1] = MOTION
        /\ entity_state[e1] = "added"
        /\ ~should_poll[e1]
        /\ e2.signal = SIGNAL_ZONES_UPDATED
        /\ device_class[e2] = MOTION
        /\ pc[e2] = "awaiting"

\* C20: a motion zone whose polling has been turned off has no stored
\* temperature, and a stored temperature is never set back to None, by a
\* poll of any outcome or by a snapshot.
C20_DisabledHasNoTemperature ==
    /\ [](\A e \in Entities :
            (entity_state[e] # "absent" /\ ~Unpolled(e) /\ ~should_poll[e])
                => temperature[e] = None)
    /\ [][\A e \in Entities :
            temperature[e] # None => temperature'[e] # None]_vars

C20_Witness ==
    \E e1, e2 \in Entities :
        /\ ~Unpolled(e1)
        /\ entity_state[e1] = "added"
        /\ ~should_poll[e1]
        /\ temperature[e1] = None
        /\ temperature[e2] # None
        /\ Returned(e2) \in {"none", "timeout", "error"}

\* The zone entity of number n.
Zone(n) == [signal |-> SIGNAL_ZONES_UPDATED, num |-> n]

\* C13: a snapshot makes an entity write its state exactly when the snapshot
\* holds the entity's number and the value there differs from the entity's
\* is_on. With zones 1 and 2 both inactive, the snapshots {1: 1, 2: 0},
\* {1: 1, 2: 0}, {1: 0, 2: 0} give two writes, both by zone 1.
C13_NotifiedIffChanged ==
    /\ \A s \in Signals : \A zones \in Snapshots(Monitored(s)) :
          DispatcherSend(s, zones, entity_state, is_on).notified =
              {e \in Entities :
                  /\ entity_state[e] = "added"
                  /\ e.signal = s
                  /\ e.num \in DOMAIN zones
                  /\ Some(zones[e.num] = 1) # is_on[e]}
    /\ (/\ entity_state[Zone(1)] = "added" /\ is_on[Zone(1)] = Some(FALSE)
        /\ entity_state[Zone(2)] = "added" /\ is_on[Zone(2)] = Some(FALSE))
          => LET on == (1 :> 1) @@ (2 :> 0)
                 off == (1 :> 0) @@ (2 :> 0)
                 s1 == DispatcherSend(SIGNAL_ZONES_UPDATED, on,
                                      entity_state, is_on)
                 s2 == DispatcherSend(SIGNAL_ZONES_UPDATED, on,
                                      entity_state, s1.is_on)
                 s3 == DispatcherSend(SIGNAL_ZONES_UPDATED, off,
                                      entity_state, s2.is_on)
             IN  /\ s1.notified = {Zone(1)}
                 /\ s2.notified = {}
                 /\ s3.notified = {Zone(1)}

C13_Witness ==
    /\ entity_state[Zone(1)] = "added"
    /\ entity_state[Zone(2)] = "added"
    /\ lastSeen[Zone(2)] = Some(FALSE)
    /\ is_on[Zone(1)] = Some(TRUE)
    /\ notified = {Zone(1)}

\* C14: a snapshot that lacks an entity's number leaves the entity's is_on
\* as it is and makes it write nothing: a missing number is neither
\* "inactive" nor a removal.
C14_AbsentNumberNoEffect ==
    \A s \in Signals : \A zones \in Snapshots(Monitored(s)) :
        \A e \in Entities :
            (entity_state[e] = "added" /\ e.signal = s
                /\ e.num \notin DOMAIN zones)
              => LET sent == DispatcherSend(s, zones, entity_state, is_on)
                 IN  sent.is_on[e] = is_on[e] /\ e \notin sent.notified

C14_Witness ==
    /\ entity_state[Zone(1)] = "added"
    /\ is_on[Zone(1)] = Some(TRUE)
    /\ is_on[Zone(2)] = Some(FALSE)
    /\ notified = {Zone(2)}

\* The output entity of number n.
Output(n) == [signal |-> SIGNAL_OUTPUTS_UPDATED, num |-> n]

\* C19: snapshots are scoped by kind. A snapshot sent on one signal changes
\* no is_on of an entity listening to the other signal and makes it write
\* nothing, the same number or not; an entity is seeded from the violated
\* set of its own kind, whatever the other kind's set holds.
C19_ScopedByKind ==
    /\ \A s \in Signals : \A zones \in Snapshots(Monitored(s)) :
          \A e \in Entities :
              e.signal # s
                => LET sent == DispatcherSend(s, zones, entity_state, is_on)
                   IN  sent.is_on[e] = is_on[e] /\ e \notin sent.notified
    /\ \A e \in Entities : \A s \in Signals :
          \A other \in SUBSET (ZoneNumbers \cup OutputNumbers) :
              (entity_state[e] = "created" /\ s # e.signal)
                => SeedIsOn(e, [violated EXCEPT ![s] = other])
                      = (e.num \in violated[e.signal])

C19_Witness ==
    /\ entity_state[Zone(1)] = "added"
    /\ entity_state[Output(1)] = "added"
    /\ is_on[Zone(1)] = Some(TRUE)
    /\ is_on[Output(1)] = Some(FALSE)
    /\ notified = {Zone(1)}

\* C15: the binary state and the temperature state do not touch each
\* other. Applying a snapshot changes no temperature and no should_poll, and
\* leaves every async_update where it is; the end of a poll, whatever its
\* outcome, changes no is_on; and a snapshot that arrives while an entity's
\* async_update sleeps or awaits its query is applied to the entity then.
C15_StateAndTelemetryApart ==
    [][/\ \A s \in Signals : \A zones \in Snapshots(Monitored(s)) :
            Push(s, zones)
              => /\ temperature' = temperature
                 /\ should_poll' = should_poll
                 /\ pc' = pc
                 /\ \A e \in Entities :
                       (/\ entity_state[e] = "added"
                        /\ e.signal = s
                        /\ e.num \in DOMAIN zones
                        /\ pc[e] \in {"sleeping", "awaiting"})
                         => is_on'[e] = Some(zones[e.num] = 1)
       /\ event'[1] = "return" => (is_on' = is_on /\ notified' = {})
       /\ (temperature' # temperature \/ should_poll' # should_poll)
             => is_on' = is_on]_vars

C15_Witness ==
    \E e \in Entities :
        /\ pc[e] = "awaiting"
        /\ temperature[e] # None
        /\ e \in notified

\* C12: recurring polls keep their errors to themselves. Whatever the end of
\* the query (a value, None, a timeout, another exception), async_update
\* returns without raising; the end of one entity's poll changes nothing of
\* any other entity; and after a failed poll every other entity's poll that
\* is due to start or to send its query can do so.
C12_PollErrorsIsolated ==
    /\ [](event[1] # "raise")
    /\ [][/\ \A e \in Entities :
              event'[1] = "return" /\ event'[2] = e
                => \A e2 \in Entities \ {e} :
                      /\ entity_state'[e2] = entity_state[e2]
                      /\ is_on'[e2] = is_on[e2]
                      /\ should_poll'[e2] = should_poll[e2]
                      /\ temperature'[e2] = temperature[e2]
                      /\ pc'[e2] = pc[e2]
                      /\ delay'[e2] = delay[e2]
         /\ \A z \in ZoneNumbers :
              event'[1] = "sensor_return" /\ event'[2] = z
                => \A z2 \in ZoneNumbers \ {z} :
                      /\ sensor_state'[z2] = sensor_state[z2]
                      /\ native_value'[z2] = native_value[z2]
                      /\ available'[z2] = available[z2]
                      /\ sensor_should_poll'[z2] = sensor_should_poll[z2]
                      /\ sensor_pc'[z2] = sensor_pc[z2]]_vars
    /\ [](\A e \in Entities :
            Returned(e) \in {"timeout", "error"}
              => \A e2 \in Entities \ {e} :
                    /\ (pc[e2] = "sleeping" /\ delay[e2] = 0)
                          => ENABLED PollQuery(e2)
                    /\ (entity_state[e2] = "added" /\ pc[e2] = "idle")
                          => ENABLED PollStart(e2))
    /\ [](\A z \in ZoneNumbers :
            SensorReturned(z) \in {"timeout", "error"}
              => \A z2 \in ZoneNumbers \ {z} :
                    (/\ sensor_state[z2] = "added"
                     /\ sensor_pc[z2] = "idle"
                     /\ sensor_should_poll[z2])
                      => ENABLED SensorPollStart(z2))

C12_Witness ==
    \E e1, e2 \in Entities :
        /\ e1 # e2
        /\ Returned(e1) = "error"
        /\ pc[e2] = "sleeping"
        /\ delay[e2] = 0
        /\ temperature[e2] # None

====
